---- MODULE Spec2Model ----
(***************************************************************************)
(* compile-commander: src/src/main.rs.                                     *)
(*                                                                         *)
(* The program reads a compilation database (JSON), applies the requested  *)
(* textual edits to the `command` string of every compile unit and writes  *)
(* the database back as a JSON array.  One run of `main` is modelled step  *)
(* by step: the emptiness check, opening and decoding the input, the       *)
(* normalisation of the top-level shape, and then for every compile unit   *)
(* the validation followed by one step per iteration of the four `for`     *)
(* loops over the requested edits, and finally creating and writing the    *)
(* output.  Strings are sequences of one-character strings; offsets are    *)
(* 0-based as in Rust.                                                     *)
(***************************************************************************)
EXTENDS Integers, Sequences, FiniteSets, TLC

VARIABLES
    args,               \* the parsed command line: the four Vec<String>
    files,              \* files[r] is the input of run r, files[r+1] its output
    run,                \* number of the current invocation of the tool
    pc,                 \* position of main
    compile_commands,   \* the Vec<Value> being mutated
    idx,                \* position of `for compile_unit in ...iter_mut()`
    j,                  \* position of the current `for ... in &args.<list>`
    opened,             \* File::open was called on the input in this run
    stdout,             \* lines printed by this run
    result,             \* "running", "Ok" or "Err": what main returned
    err                 \* the kind of the error returned, "none" otherwise

vars == <<args, files, run, pc, compile_commands, idx, j, opened, stdout, result, err>>

-----------------------------------------------------------------------------
(* Bounds of the model *)

MaxLen == 5
MaxReq == 2
MaxUnits == 2
MaxRuns == 2

-----------------------------------------------------------------------------
(* serde_json::Value *)

JString(s) == [tag |-> "String", s |-> s]
JNumber == [tag |-> "Number"]
JArray(items) == [tag |-> "Array", items |-> items]
JObject(map) == [tag |-> "Object", map |-> map]

(* A file on disk *)
NoFile == [kind |-> "none"]
Garbage == [kind |-> "garbage"]
JsonFile(v) == [kind |-> "json", value |-> v]
Untouched == [kind |-> "untouched"]
Created == [kind |-> "created"]
PartialFile(items) == [kind |-> "partial", items |-> items]

-----------------------------------------------------------------------------
(* String operations of the Rust standard library used by main *)

\* s[i .. i+len(t)) == t, with a 0-based offset i
MatchesAt(s, t, i) ==
    /\ i + Len(t) <= Len(s)
    /\ \A k \in 1..Len(t) : s[i + k] = t[k]

\* str::find: the offset of the first match, -1 for None
Find(s, t) ==
    IF \E i \in 0..Len(s) : MatchesAt(s, t, i)
    THEN CHOOSE i \in 0..Len(s) :
            /\ MatchesAt(s, t, i)
            /\ \A k \in 0..(i - 1) : ~MatchesAt(s, t, k)
    ELSE -1

\* String::insert_str
InsertStr(s, i, t) == SubSeq(s, 1, i) \o t \o SubSeq(s, i + 1, Len(s))

\* String::replace_range(a..b, t)
ReplaceRange(s, a, b, t) == SubSeq(s, 1, a) \o t \o SubSeq(s, b + 1, Len(s))

\* String::push_str
PushStr(s, t) == s \o t

-----------------------------------------------------------------------------
(* The four edits of one loop iteration, lines 105-127 *)

DashI == <<"-", "I">>

\* variant of format!(" -I{} ", include) without the leading space
FormatAddInclude_NoLeadingSpace(include) == <<"-", "I">> \o include \o <<" ">>

\* format!(" -I{} ", include)
FormatAddInclude(include) == <<" ", "-", "I">> \o include \o <<" ">>

\* format!(" -I{}", include)
FormatDeleteInclude(include) == <<" ", "-", "I">> \o include

\* format!(" -{}", arg)
FormatArg(arg) == <<" ", "-">> \o arg

\* str::rfind: the offset of the last match, -1 for None
FindLast(s, t) ==
    IF \E i \in 0..Len(s) : MatchesAt(s, t, i)
    THEN CHOOSE i \in 0..Len(s) :
            /\ MatchesAt(s, t, i)
            /\ \A k \in (i + 1)..Len(s) : ~MatchesAt(s, t, k)
    ELSE -1

\* variant of lines 106-108 that appends the flag when no `-I` is found
AddInclude_AppendsWhenAbsent(compile_command, include) ==
    LET index == Find(compile_command, DashI)
    IN  IF index # -1
        THEN InsertStr(compile_command, index, FormatAddInclude(include))
        ELSE PushStr(compile_command, FormatDeleteInclude(include))

\* variant of lines 106-108 that anchors on the last `-I`
AddInclude_LastOccurrence(compile_command, include) ==
    LET index == FindLast(compile_command, DashI)
    IN  IF index # -1
        THEN InsertStr(compile_command, index, FormatAddInclude(include))
        ELSE compile_command

AddInclude(compile_command, include) ==
    LET index == Find(compile_command, DashI)
    IN  IF index # -1
        THEN InsertStr(compile_command, index, FormatAddInclude(include))
        ELSE compile_command

\* variant of lines 113-114 and 124-125 that removes the last match
RemoveTarget_LastMatch(compile_command, target_str) ==
    LET start_idx == FindLast(compile_command, target_str)
    IN  IF start_idx # -1
        THEN ReplaceRange(compile_command, start_idx, start_idx + Len(target_str), <<>>)
        ELSE compile_command

RemoveTarget(compile_command, target_str) ==
    LET start_idx == Find(compile_command, target_str)
    IN  IF start_idx # -1
        THEN ReplaceRange(compile_command, start_idx, start_idx + Len(target_str), <<>>)
        ELSE compile_command

DeleteInclude(compile_command, include) ==
    RemoveTarget(compile_command, FormatDeleteInclude(include))

\* variant of line 119 that appends only when the flag is not there yet
AddArg_OnlyWhenAbsent(compile_command, arg) ==
    IF Find(compile_command, FormatArg(arg)) = -1
    THEN PushStr(compile_command, FormatArg(arg))
    ELSE compile_command

AddArg(compile_command, arg) == PushStr(compile_command, FormatArg(arg))

DeleteArg(compile_command, arg) ==
    RemoveTarget(compile_command, FormatArg(arg))

-----------------------------------------------------------------------------
(* main, lines 34-138 *)

NoModMsg == "No modifications requested, exiting."

\* variant of the check of lines 37-40 with the last test negated
NoModificationsRequested_LastNegated ==
    /\ args.add_include = <<>>
    /\ args.delete_include = <<>>
    /\ args.add_arg = <<>>
    /\ args.delete_arg # <<>>

\* lines 37-40
NoModificationsRequested ==
    /\ args.add_include = <<>>
    /\ args.delete_include = <<>>
    /\ args.add_arg = <<>>
    /\ args.delete_arg = <<>>

\* lines 55-64: the Vec<Value> of the decoded value, or the error
Normalize(v) ==
    CASE v.tag = "Array" -> [ok |-> TRUE, units |-> v.items]
      [] v.tag = "Object" -> [ok |-> TRUE, units |-> <<v>>]
      [] OTHER -> [ok |-> FALSE, units |-> <<>>]

\* variant of the checks of lines 69-102 that accepts a `file` of any type
ValidationError_AnyFileType(compile_unit) ==
    IF compile_unit.tag # "Object" THEN "NotAnObject"
    ELSE IF "file" \notin DOMAIN compile_unit.map THEN "MissingField_file"
    ELSE IF "command" \notin DOMAIN compile_unit.map THEN "MissingField_command"
    ELSE IF compile_unit.map["command"].tag # "String" THEN "WrongType_command"
    ELSE "none"

\* lines 69-102: the error of the first failing check of one element, "none" if all pass
ValidationError(compile_unit) ==
    IF compile_unit.tag # "Object" THEN "NotAnObject"
    ELSE IF "file" \notin DOMAIN compile_unit.map THEN "MissingField_file"
    ELSE IF compile_unit.map["file"].tag # "String" THEN "WrongType_file"
    ELSE IF "command" \notin DOMAIN compile_unit.map THEN "MissingField_command"
    ELSE IF compile_unit.map["command"].tag # "String" THEN "WrongType_command"
    ELSE "none"

\* the order of the four loops of the body, lines 105, 111, 118, 122
Phases == <<"add_include", "delete_include", "add_arg", "delete_arg">>

\* the first loop from the n-th on that has something to iterate over, 0 if none
NextPhaseFrom(n) ==
    IF \E m \in n..4 : args[Phases[m]] # <<>>
    THEN CHOOSE m \in n..4 :
            /\ args[Phases[m]] # <<>>
            /\ \A k \in n..(m - 1) : args[Phases[k]] = <<>>
    ELSE 0

\* where the outer loop continues with element k: its body, or past the loop (line 130)
UnitPos(k) ==
    IF k <= Len(compile_commands)
    THEN [pc |-> "unit", idx |-> k, j |-> 0]
    ELSE [pc |-> "create", idx |-> k, j |-> 0]

\* where main continues after iteration j of loop n of the body
AfterStep(n) ==
    IF j < Len(args[Phases[n]])
    THEN [pc |-> Phases[n], idx |-> idx, j |-> j + 1]
    ELSE LET m == NextPhaseFrom(n + 1)
         IN  IF m # 0
             THEN [pc |-> Phases[m], idx |-> idx, j |-> 1]
             ELSE UnitPos(idx + 1)

\* the String behind `compile_command`, line 91
CurrentCommand == compile_commands[idx].map["command"].s

\* variant of the write that rebuilds the unit from the two fields main reads
SetCommand_RebuildsUnit(units, k, s) ==
    [units EXCEPT ![k] =
        JObject([f \in {"file", "command"} |->
                    IF f = "command" THEN JString(s) ELSE @.map[f]])]

\* writing through the &mut String: only this field of this unit changes
SetCommand(units, k, s) ==
    [units EXCEPT ![k] = JObject([@.map EXCEPT !["command"] = JString(s)])]

\* variant of line 134 that writes a one-unit database as a bare object
OutputDocument_BareSingleton(units) ==
    IF Len(units) = 1 THEN units[1] ELSE JArray(units)

\* line 134: the value handed to the encoder
OutputDocument(units) == JArray(units)

InputFile == files[run]
OutputFile == files[run + 1]

Fail(kind) ==
    /\ pc' = "done"
    /\ result' = "Err"
    /\ err' = kind

\* lines 37-44
CheckArgs ==
    /\ pc = "check_args"
    /\ IF NoModificationsRequested
       THEN /\ stdout' = Append(stdout, NoModMsg)
            /\ pc' = "done"
            /\ result' = "Ok"
       ELSE /\ pc' = "open"
            /\ UNCHANGED <<stdout, result>>
    /\ UNCHANGED <<args, files, run, compile_commands, idx, j, opened, err>>

\* lines 47-50
OpenInput ==
    /\ pc = "open"
    /\ opened' = TRUE
    /\ IF InputFile.kind = "none"
       THEN Fail("IoError")
       ELSE /\ pc' = "parse"
            /\ UNCHANGED <<result, err>>
    /\ UNCHANGED <<args, files, run, compile_commands, idx, j, stdout>>

\* lines 53-54
ParseInput ==
    /\ pc = "parse"
    /\ IF InputFile.kind # "json"
       THEN Fail("DecodeError")
       ELSE /\ pc' = "normalize"
            /\ UNCHANGED <<result, err>>
    /\ UNCHANGED <<args, files, run, compile_commands, idx, j, opened, stdout>>

\* lines 55-64
NormalizeInput ==
    /\ pc = "normalize"
    /\ LET n == Normalize(InputFile.value)
       IN  IF n.ok
           THEN /\ compile_commands' = n.units
                /\ pc' = IF Len(n.units) >= 1 THEN "unit" ELSE "create"
                /\ idx' = 1
                /\ UNCHANGED <<result, err>>
           ELSE /\ Fail("MalformedDatabase")
                /\ UNCHANGED <<compile_commands, idx>>
    /\ UNCHANGED <<args, files, run, j, opened, stdout>>

\* variant of lines 66-102 that leaves the loop at a failing unit instead of returning
ValidateUnit_BreaksOut ==
    /\ pc = "unit"
    /\ LET e == ValidationError(compile_commands[idx])
       IN  IF e # "none"
           THEN /\ pc' = "create"
                /\ UNCHANGED <<j, result, err>>
           ELSE /\ pc' = Phases[NextPhaseFrom(1)]
                /\ j' = 1
                /\ UNCHANGED <<result, err>>
    /\ UNCHANGED <<args, files, run, compile_commands, idx, opened, stdout>>

\* lines 66-102
ValidateUnit ==
    /\ pc = "unit"
    /\ LET e == ValidationError(compile_commands[idx])
       IN  IF e # "none"
           THEN /\ Fail(e)
                /\ UNCHANGED j
           ELSE /\ pc' = Phases[NextPhaseFrom(1)]
                /\ j' = 1
                /\ UNCHANGED <<result, err>>
    /\ UNCHANGED <<args, files, run, compile_commands, idx, opened, stdout>>

\* one edit of the current command, then on to the next iteration
EditStep(n, s) ==
    /\ compile_commands' = SetCommand(compile_commands, idx, s)
    /\ LET p == AfterStep(n)
       IN  /\ pc' = p.pc
           /\ idx' = p.idx
           /\ j' = p.j
    /\ UNCHANGED <<args, files, run, opened, stdout, result, err>>

\* lines 105-109
AddIncludeStep ==
    /\ pc = "add_include"
    /\ EditStep(1, AddInclude(CurrentCommand, args.add_include[j]))

\* lines 111-116
DeleteIncludeStep ==
    /\ pc = "delete_include"
    /\ EditStep(2, DeleteInclude(CurrentCommand, args.delete_include[j]))

\* lines 118-120
AddArgStep ==
    /\ pc = "add_arg"
    /\ EditStep(3, AddArg(CurrentCommand, args.add_arg[j]))

\* lines 122-127
DeleteArgStep ==
    /\ pc = "delete_arg"
    /\ EditStep(4, DeleteArg(CurrentCommand, args.delete_arg[j]))

\* lines 131-133: File::create succeeds (the file exists and is empty) or fails
CreateOutput ==
    /\ pc = "create"
    /\ \E created \in BOOLEAN :
          IF created
          THEN /\ files' = [files EXCEPT ![run + 1] = Created]
               /\ pc' = "write"
               /\ UNCHANGED <<result, err>>
          ELSE /\ Fail("IoError")
               /\ UNCHANGED files
    /\ UNCHANGED <<args, run, compile_commands, idx, j, opened, stdout>>

\* lines 134-137: the encoder writes the whole document, or fails part-way
WriteOutput ==
    /\ pc = "write"
    /\ \E written \in 0..(Len(compile_commands) + 1) :
          IF written = Len(compile_commands) + 1
          THEN /\ files' = [files EXCEPT
                              ![run + 1] = JsonFile(OutputDocument(compile_commands))]
               /\ pc' = "done"
               /\ result' = "Ok"
               /\ UNCHANGED err
          ELSE /\ files' = [files EXCEPT
                              ![run + 1] = PartialFile(SubSeq(compile_commands, 1, written))]
               /\ Fail("EncodeError")
    /\ UNCHANGED <<args, run, compile_commands, idx, j, opened, stdout>>

\* the tool is invoked again on the output of the run that just succeeded,
\* with the same edits and a fresh output path
Rerun ==
    /\ pc = "done"
    /\ result = "Ok"
    /\ OutputFile.kind = "json"
    /\ run < MaxRuns
    /\ run' = run + 1
    /\ files' = Append(files, Untouched)
    /\ pc' = "check_args"
    /\ compile_commands' = <<>>
    /\ idx' = 0
    /\ j' = 0
    /\ opened' = FALSE
    /\ stdout' = <<>>
    /\ result' = "running"
    /\ err' = "none"
    /\ UNCHANGED args

Invocation ==
    \/ CheckArgs
    \/ OpenInput
    \/ ParseInput
    \/ NormalizeInput
    \/ ValidateUnit
    \/ AddIncludeStep
    \/ DeleteIncludeStep
    \/ AddArgStep
    \/ DeleteArgStep
    \/ CreateOutput
    \/ WriteOutput

Next == Invocation \/ Rerun

-----------------------------------------------------------------------------
(* Inputs: command lines and databases the tool is run on *)

CmdInc == <<"c","l","a","n","g"," ","-","c"," ","-","I","f","o","o","/","b","a","r"," ","f","i","l","e",".","c">>
CmdPlain == <<"c","l","a","n","g"," ","-","c"," ","f","i","l","e",".","c">>
Baz == <<"b","a","z">>
Foo == <<"f","o","o">>
FooBar == <<"f","o","o","/","b","a","r">>
FileA == <<"a",".","c">>
FileB == <<"b",".","c">>
Dir == <<"/","s","r","c">>

\* a well-formed compile unit with one opaque field besides `file` and `command`
Unit(f, c) ==
    JObject([k \in {"file", "command", "directory"} |->
                IF k = "file" THEN JString(f)
                ELSE IF k = "command" THEN JString(c)
                ELSE JString(Dir)])

\* elements of the sequence that fail one of the checks of lines 69-102
NotObjectUnit == JString(FileA)
NestedUnit == JArray(<<Unit(FileA, CmdPlain)>>)
NoFileUnit == JObject([k \in {"command", "directory"} |-> JString(CmdInc)])
NumberFileUnit ==
    JObject([k \in {"file", "command"} |-> IF k = "file" THEN JNumber ELSE JString(CmdInc)])
NoCommandUnit == JObject([k \in {"file", "directory"} |-> JString(FileB)])
NumberCommandUnit ==
    JObject([k \in {"file", "command"} |-> IF k = "file" THEN JString(FileB) ELSE JNumber])
NoFieldsUnit == JObject([k \in {"directory"} |-> JString(Dir)])

BadUnits ==
    { NotObjectUnit, NestedUnit, NoFileUnit, NumberFileUnit,
      NoCommandUnit, NumberCommandUnit, NoFieldsUnit }

GoodUnits == { Unit(FileA, CmdInc), Unit(FileB, CmdPlain) }

\* the elements arrays of every length are made of
Elements == GoodUnits \cup { NotObjectUnit, NoCommandUnit }

SeqsUpTo(S, n) == UNION { [1..k -> S] : k \in 0..n }

\* every decoded top-level value: arrays, one-element arrays of every bad
\* element, bare objects, scalars
Documents ==
    { JArray(items) : items \in SeqsUpTo(Elements, MaxUnits) }
    \cup { JArray(<<u>>) : u \in BadUnits }
    \cup { u \in GoodUnits \cup BadUnits : u.tag = "Object" }
    \cup { JString(Foo), JNumber }

InputFiles == { NoFile, Garbage } \cup { JsonFile(v) : v \in Documents }

SpecVals == { Baz, FooBar }
ExampleVals == { Baz, Foo, FooBar }

\* all command lines with at most n values in total, drawn from Vals
EditRequests(Vals, n) ==
    UNION { { [add_include |-> a, delete_include |-> b, add_arg |-> c, delete_arg |-> d] :
                a \in [1..t[1] -> Vals], b \in [1..t[2] -> Vals],
                c \in [1..t[3] -> Vals], d \in [1..t[4] -> Vals] } :
            t \in { u \in [1..4 -> 0..n] : u[1] + u[2] + u[3] + u[4] <= n } }

\* command lines that use one of the four options only, at most n times
SingleKindRequests(Vals, n) ==
    { [add_include |-> IF p = 1 THEN list ELSE <<>>,
       delete_include |-> IF p = 2 THEN list ELSE <<>>,
       add_arg |-> IF p = 3 THEN list ELSE <<>>,
       delete_arg |-> IF p = 4 THEN list ELSE <<>>] :
        p \in 1..4, list \in SeqsUpTo(Vals, n) \ {<<>>} }

\* short command strings over the characters the matching rules look at
Chars == {" ", "-", "I"}
ShortCommands == SeqsUpTo(Chars, MaxLen)
ShortVals == { <<>>, <<"I">>, <<" ">>, <<"-", "I">> }

StartOfRun(request, file) ==
    /\ args = request
    /\ files = <<file, Untouched>>
    /\ run = 1
    /\ pc = "check_args"
    /\ compile_commands = <<>>
    /\ idx = 0
    /\ j = 0
    /\ opened = FALSE
    /\ stdout = <<>>
    /\ result = "running"
    /\ err = "none"

\* the tool run, and run again, on databases of every shape
Init ==
    \E request \in EditRequests(SpecVals, MaxReq), file \in InputFiles :
        StartOfRun(request, file)

Spec == Init /\ [][Next]_vars

\* one run on a one-unit database, the command string drawn exhaustively
InitMut ==
    \/ \E request \in SingleKindRequests(ShortVals, MaxReq), s \in ShortCommands :
          StartOfRun(request, JsonFile(JArray(<<Unit(FileA, s)>>)))
    \/ \E request \in SingleKindRequests(ExampleVals, MaxReq), s \in {CmdInc, CmdPlain} :
          StartOfRun(request, JsonFile(JArray(<<Unit(FileA, s)>>)))

SpecMut == InitMut /\ [][Invocation]_vars

-----------------------------------------------------------------------------
(* Vocabulary of the properties, stated apart from the operators of main *)

EmptyRequest ==
    Len(args.add_include) + Len(args.delete_include)
        + Len(args.add_arg) + Len(args.delete_arg) = 0

\* the request uses the n-th option only
OnlyOption(n) ==
    /\ args[Phases[n]] # <<>>
    /\ \A q \in (1..4) \ {n} : args[Phases[q]] = <<>>

\* the sequence of records a decoded array or object stands for
RecordsOf(v) == IF v.tag = "Array" THEN v.items ELSE <<v>>

WellFormedUnit(v) ==
    /\ v.tag = "Object"
    /\ {"file", "command"} \subseteq DOMAIN v.map
    /\ v.map["file"].tag = "String"
    /\ v.map["command"].tag = "String"

\* the position of the first record that is not well formed, 0 if all are
FirstBad(records) ==
    IF \E k \in 1..Len(records) : ~WellFormedUnit(records[k])
    THEN CHOOSE k \in 1..Len(records) :
            /\ ~WellFormedUnit(records[k])
            /\ \A m \in 1..(k - 1) : WellFormedUnit(records[m])
    ELSE 0

ValidationKinds ==
    {"NotAnObject", "MissingField_file", "WrongType_file",
     "MissingField_command", "WrongType_command"}

CommandOf(unit) == unit.map["command"].s

\* the n-th edit applied once for every value of a list, in order
RECURSIVE ApplyList(_, _, _)
ApplyList(n, s, list) ==
    IF list = <<>> THEN s
    ELSE ApplyList(n,
                   CASE n = 1 -> AddInclude(s, Head(list))
                     [] n = 2 -> DeleteInclude(s, Head(list))
                     [] n = 3 -> AddArg(s, Head(list))
                     [] n = 4 -> DeleteArg(s, Head(list)),
                   Tail(list))

IncludePhases(s) ==
    ApplyList(2, ApplyList(1, s, args.add_include), args.delete_include)

\* the command of a unit once the body of the loop has run on it
MutateCommand(s) ==
    ApplyList(4, ApplyList(3, IncludePhases(s), args.add_arg), args.delete_arg)

\* t occurs in s at the 0-based offset i
OccursAt(s, t, i) ==
    /\ i + Len(t) <= Len(s)
    /\ SubSeq(s, i + 1, i + Len(t)) = t

FirstOccursAt(s, t, i) ==
    /\ OccursAt(s, t, i)
    /\ \A k \in 0..(i - 1) : ~OccursAt(s, t, k)

Occurs(s, t) == \E i \in 0..Len(s) : OccursAt(s, t, i)

\* the number of offsets of s at which t occurs
Count(s, t) == Cardinality({ i \in 0..Len(s) : OccursAt(s, t, i) })

\* the records of the input of this run, once main has them in memory
Loaded == compile_commands # <<>>

InputRecords == RecordsOf(InputFile.value)

-----------------------------------------------------------------------------
(* C1 *)

\* C1: when all four edit sets are empty, the run prints the "no modifications"
\* notice and returns Ok; it never opens the input and never creates or writes
\* the output, whatever the input file is (missing, not JSON, malformed, valid).
C1_EmptyRequestDoesNoIO ==
    EmptyRequest =>
        /\ ~opened
        /\ OutputFile = Untouched
        /\ compile_commands = <<>>
        /\ pc \in {"check_args", "done"}
        /\ pc = "done" =>
              /\ result = "Ok"
              /\ err = "none"
              /\ stdout = <<NoModMsg>>

C1_Witness ==
    /\ EmptyRequest
    /\ pc = "done"
    /\ InputFile = Garbage
    /\ stdout = <<NoModMsg>>

-----------------------------------------------------------------------------
(* C2 *)

\* C2: with a non-empty request, a top-level value that is neither array nor
\* object, or a record that fails validation, ends the run in an error at the
\* first such record in sequence order; the output is never created or written,
\* while the commands of the earlier records are already mutated in memory.
C2_ValidationFailureAborts ==
    (~EmptyRequest /\ InputFile.kind = "json") =>
        LET v == InputFile.value
            b == FirstBad(InputRecords)
        IN  /\ v.tag \notin {"Array", "Object"} =>
                  /\ OutputFile = Untouched
                  /\ pc \in {"check_args", "open", "parse", "normalize", "done"}
                  /\ pc = "done" => (result = "Err" /\ err = "MalformedDatabase")
            /\ (v.tag \in {"Array", "Object"} /\ b # 0) =>
                  /\ OutputFile = Untouched
                  /\ pc \notin {"create", "write"}
                  /\ idx <= b
                  /\ pc = "done" =>
                        /\ result = "Err"
                        /\ err \in ValidationKinds
                        /\ idx = b
                        /\ \A k \in 1..(b - 1) :
                              CommandOf(compile_commands[k])
                                  = MutateCommand(CommandOf(InputRecords[k]))
                        /\ \A k \in b..Len(InputRecords) :
                              compile_commands[k] = InputRecords[k]
                        /\ (/\ InputRecords[b].tag = "Object"
                            /\ "file" \in DOMAIN InputRecords[b].map
                            /\ InputRecords[b].map["file"].tag = "String"
                            /\ "command" \notin DOMAIN InputRecords[b].map)
                              => err = "MissingField_command"

C2_Witness ==
    /\ pc = "done"
    /\ err = "MissingField_command"
    /\ idx = 2
    /\ CommandOf(compile_commands[1]) # CommandOf(InputRecords[1])
    /\ OutputFile = Untouched

-----------------------------------------------------------------------------
(* C3 *)

\* every record of the input is well formed and carries its fully mutated command
AllMutated ==
    /\ Len(compile_commands) = Len(InputRecords)
    /\ \A k \in 1..Len(InputRecords) :
          /\ WellFormedUnit(InputRecords[k])
          /\ CommandOf(compile_commands[k]) = MutateCommand(CommandOf(InputRecords[k]))

\* C3 as claimed: the output is created only after every record has been
\* validated and mutated, and no failing run, of whatever error kind, leaves a
\* partially written output file.
C3_NoFailureLeavesPartialOutput ==
    /\ OutputFile # Untouched => AllMutated
    /\ result = "Err" => OutputFile.kind # "partial"

\* C3 as amended: the output is created only after every record has been
\* validated and mutated; a run that fails before the encoder runs (open,
\* decode, shape, validation, creation of the output) leaves the output
\* untouched; a run that fails while encoding leaves the created output file
\* incompletely written.
C3_OutputCreatedAfterMutation ==
    /\ OutputFile # Untouched =>
          /\ AllMutated
          /\ pc \in {"write", "done"}
    /\ (result = "Err" /\ err # "EncodeError") => OutputFile = Untouched
    /\ (result = "Err" /\ err = "EncodeError") =>
          /\ OutputFile.kind = "partial"
          /\ \E n \in 0..Len(compile_commands) :
                OutputFile.items = SubSeq(compile_commands, 1, n)

C3_Witness ==
    /\ result = "Err"
    /\ err = "EncodeError"
    /\ Len(compile_commands) = 2
    /\ OutputFile.kind = "partial"
    /\ Len(OutputFile.items) = 1

-----------------------------------------------------------------------------
(* C4 *)

\* C4: every successful run with a non-empty request writes a JSON array with
\* exactly the records of the normalized input, in the same order; a bare
\* object is written as a one-element array, never as a bare object.
C4_OutputIsArrayOfSameRecords ==
    (result = "Ok" /\ ~EmptyRequest) =>
        /\ OutputFile.kind = "json"
        /\ OutputFile.value.tag = "Array"
        /\ Len(OutputFile.value.items) = Len(InputRecords)
        /\ \A k \in 1..Len(InputRecords) :
              /\ OutputFile.value.items[k].tag = "Object"
              /\ [OutputFile.value.items[k].map EXCEPT !["command"] = JNumber]
                    = [InputRecords[k].map EXCEPT !["command"] = JNumber]
        /\ InputFile.value.tag = "Object" =>
              /\ Len(OutputFile.value.items) = 1
              /\ OutputFile.value # InputFile.value

C4_Witness ==
    /\ result = "Ok"
    /\ ~EmptyRequest
    /\ InputFile.kind = "json"
    /\ InputFile.value.tag = "Object"
    /\ OutputFile.kind = "json"
    /\ OutputFile.value.tag = "Array"
    /\ Len(OutputFile.value.items) = 1

-----------------------------------------------------------------------------
(* C5 *)

\* a and b are the same record but for the string of `command`
SameButCommand(a, b) ==
    IF b.tag = "Object" /\ "command" \in DOMAIN b.map /\ b.map["command"].tag = "String"
    THEN /\ a.tag = "Object"
         /\ DOMAIN a.map = DOMAIN b.map
         /\ a.map["command"].tag = "String"
         /\ \A f \in DOMAIN b.map \ {"command"} : a.map[f] = b.map[f]
    ELSE a = b

\* C5: the mutation changes only the `command` string of the unit it works on:
\* every other field of the unit and its set of field names are those of the
\* input record, in memory and in the output, and the units the loop is not
\* working on are not changed by the edits of another unit.
C5_OnlyCommandChanges ==
    Loaded =>
        /\ Len(compile_commands) = Len(InputRecords)
        /\ \A k \in 1..Len(InputRecords) :
              /\ SameButCommand(compile_commands[k], InputRecords[k])
              /\ (k > idx \/ (k = idx /\ pc = "unit")) =>
                    compile_commands[k] = InputRecords[k]
              /\ k < idx =>
                    CommandOf(compile_commands[k])
                        = MutateCommand(CommandOf(InputRecords[k]))
        /\ OutputFile.kind = "json" =>
              \A k \in 1..Len(InputRecords) :
                  SameButCommand(OutputFile.value.items[k], InputRecords[k])

C5_Witness ==
    /\ result = "Ok"
    /\ OutputFile.kind = "json"
    /\ Len(InputRecords) = 2
    /\ CommandOf(OutputFile.value.items[1]) # CommandOf(InputRecords[1])
    /\ CommandOf(OutputFile.value.items[2]) = CommandOf(InputRecords[2])
    /\ OutputFile.value.items[1].map["directory"] = JString(Dir)

-----------------------------------------------------------------------------
(* C6 *)

\* the command of the unit being edited, before and after a step of its loops
Before == CommandOf(compile_commands[idx])
After == CommandOf(compile_commands'[idx])

-----------------------------------------------------------------------------
(* C7 *)

\* the run has applied the single edit add-include `baz` to `clang -c -Ifoo/bar file.c`
C7_Case ==
    /\ pc = "create"
    /\ OnlyOption(1)
    /\ args.add_include = <<Baz>>
    /\ Len(InputRecords) = 1
    /\ CommandOf(InputRecords[1]) = CmdInc

\* C7 as claimed: add-include `baz` on `clang -c -Ifoo/bar file.c` yields
\* `clang -c -Ibaz  -Ifoo/bar file.c`: one space after `-c`, two after `-Ibaz`.
C7_TwoSpacesAfterBaz ==
    C7_Case =>
        CommandOf(compile_commands[1]) =
            <<"c","l","a","n","g"," ","-","c"," ","-","I","b","a","z"," "," ",
              "-","I","f","o","o","/","b","a","r"," ","f","i","l","e",".","c">>

\* C7 as amended: add-include `baz` on `clang -c -Ifoo/bar file.c` yields
\* `clang -c  -Ibaz -Ifoo/bar file.c`: two spaces after `-c` (the original
\* separator and the inserted leading space), one space after `-Ibaz`.
C7_TwoSpacesBeforeBaz ==
    C7_Case =>
        CommandOf(compile_commands[1]) =
            <<"c","l","a","n","g"," ","-","c"," "," ","-","I","b","a","z"," ",
              "-","I","f","o","o","/","b","a","r"," ","f","i","l","e",".","c">>

C7_Witness ==
    /\ C7_Case
    /\ Len(CommandOf(compile_commands[1])) = Len(CmdInc) + 7
    /\ SubSeq(CommandOf(compile_commands[1]), 9, 11) = <<" ", " ", "-">>
    /\ SubSeq(CommandOf(compile_commands[1]), 15, 17) = <<"z", " ", "-">>

-----------------------------------------------------------------------------
(* C8 *)

\* the target of the delete request a step is about to apply
DeleteTarget ==
    IF pc = "delete_include"
    THEN <<" ", "-", "I">> \o args.delete_include[j]
    ELSE <<" ", "-">> \o args.delete_arg[j]

DeleteList == IF pc = "delete_include" THEN args.delete_include ELSE args.delete_arg

\* one delete request removes the first occurrence of its target and nothing
\* else, or nothing at all when the target does not occur
RemovesFirstOccurrence ==
    LET s == Before
        t == DeleteTarget
    IN  /\ \A i \in 0..Len(s) :
              FirstOccursAt(s, t, i) =>
                  /\ After = SubSeq(s, 1, i) \o SubSeq(s, i + Len(t) + 1, Len(s))
                  /\ Len(After) = Len(s) - Len(t)
        /\ ~Occurs(s, t) => After = s
        /\ (s = CmdInc /\ t = <<" ", "-", "I">> \o FooBar) => After = CmdPlain

\* the step applies the last of n requests that all name the same value, the
\* only edits of the run
LastOfSameDeletes ==
    /\ j = Len(DeleteList)
    /\ \A m \in 1..Len(DeleteList) : DeleteList[m] = DeleteList[1]
    /\ \E n \in {2, 4} : OnlyOption(n)

Min(a, b) == IF a <= b THEN a ELSE b

\* C8 as claimed: each delete request removes exactly the first occurrence of
\* its target, or nothing when it does not occur; a command with k occurrences
\* keeps k-1 after one request, and the same deletion requested n times removes
\* min(n, available) occurrences.
C8_EachDeleteLowersCountByOne ==
    [][(pc = "delete_include" \/ pc = "delete_arg") =>
        LET k == Count(Before, DeleteTarget)
            k0 == Count(CommandOf(InputRecords[idx]), DeleteTarget)
        IN  /\ RemovesFirstOccurrence
            /\ Count(After, DeleteTarget) = (IF k > 0 THEN k - 1 ELSE 0)
            /\ LastOfSameDeletes =>
                  /\ Count(After, DeleteTarget) = k0 - Min(j, k0)
                  /\ Len(CommandOf(InputRecords[idx])) - Len(After)
                        = Min(j, k0) * Len(DeleteTarget)
    ]_vars

\* C8 as amended: each delete request removes exactly the first occurrence of
\* its target and nothing else, or leaves the command unchanged when the target
\* does not occur, so the length drops by len(target) or by 0; the same deletion
\* requested n times removes one occurrence per request for as long as the
\* target still occurs in the current command: m <= n removals, and with m < n
\* no occurrence is left.  The number of occurrences need not fall by one: the
\* removal can join the text around it into a new occurrence, and it can take
\* part of an overlapping occurrence with it.
C8_EachDeleteRemovesFirstOccurrence ==
    [][(pc = "delete_include" \/ pc = "delete_arg") =>
        /\ RemovesFirstOccurrence
        /\ Occurs(Before, DeleteTarget) => Len(After) = Len(Before) - Len(DeleteTarget)
        /\ LastOfSameDeletes =>
              \E m \in 0..j :
                  /\ Len(CommandOf(InputRecords[idx])) - Len(After) = m * Len(DeleteTarget)
                  /\ m < j => ~Occurs(After, DeleteTarget)
    ]_vars

C8_Witness ==
    /\ pc = "create"
    /\ OnlyOption(2)
    /\ args.delete_include = <<FooBar>>
    /\ CommandOf(InputRecords[1]) = CmdInc
    /\ CommandOf(compile_commands[1]) = CmdPlain

-----------------------------------------------------------------------------
(* C9 *)

\* ` -a1 -a2 ...` for the values of a list
RECURSIVE Flags(_)
Flags(list) ==
    IF list = <<>> THEN <<>>
    ELSE <<" ", "-">> \o Head(list) \o Flags(Tail(list))

\* n copies of t, one after the other
RECURSIVE Copies(_, _)
Copies(n, t) == IF n = 0 THEN <<>> ELSE t \o Copies(n - 1, t)

\* C9: add-arg is unconditional and never deduplicates: without delete-arg
\* requests, the command of every unit the loop is done with is its command
\* after the include phases followed by ` -a1` ... ` -an` in input order; and k
\* runs in a row with the one add-arg value a, each on the output of the one
\* before, leave k copies of ` -a` at the end of every command.
C9_AddArgAlwaysAppends ==
    /\ (Loaded /\ args.delete_arg = <<>>) =>
          \A k \in 1..Len(compile_commands) :
              k < idx =>
                  CommandOf(compile_commands[k])
                      = IncludePhases(CommandOf(InputRecords[k])) \o Flags(args.add_arg)
    /\ (OnlyOption(3) /\ Len(args.add_arg) = 1 /\ result = "Ok") =>
          /\ OutputFile.kind = "json"
          /\ Len(OutputFile.value.items) = Len(RecordsOf(files[1].value))
          /\ \A k \in 1..Len(OutputFile.value.items) :
                CommandOf(OutputFile.value.items[k])
                    = CommandOf(RecordsOf(files[1].value)[k])
                        \o Copies(run, <<" ", "-">> \o args.add_arg[1])

C9_Witness ==
    /\ OnlyOption(3)
    /\ args.add_arg = <<Baz>>
    /\ run = 2
    /\ result = "Ok"
    /\ OutputFile.kind = "json"
    /\ Len(OutputFile.value.items) = 2
    /\ CommandOf(OutputFile.value.items[2])
          = CmdPlain \o <<" ", "-", "b", "a", "z", " ", "-", "b", "a", "z">>

-----------------------------------------------------------------------------
(* C10 *)

\* `-Ipn ` ... `-Ip1 `: the flags of a list of paths, last path first
RECURSIVE ReversedIncludes(_)
ReversedIncludes(list) ==
    IF list = <<>> THEN <<>>
    ELSE ReversedIncludes(Tail(list)) \o <<"-", "I">> \o Head(list) \o <<" ">>

\* C10: successive include additions anchor on the `-I` injected before: for a
\* command s whose first `-I` is at offset i and includesToAdd = [p1..pn], the
\* string after the add-include phase is s[0..i), n spaces, `-Ipn ` ... `-Ip1 `,
\* s[i..): the added includes come in the reverse of the order supplied, all
\* before the original first `-I`, around text that is unchanged.
C10_AddedIncludesInReverseOrder ==
    (pc = "create" /\ OnlyOption(1)) =>
        \A k \in 1..Len(InputRecords) :
            LET s == CommandOf(InputRecords[k])
                n == Len(args.add_include)
            IN  \A i \in 0..Len(s) :
                    FirstOccursAt(s, <<"-", "I">>, i) =>
                        CommandOf(compile_commands[k])
                            = SubSeq(s, 1, i) \o Copies(n, <<" ">>)
                                \o ReversedIncludes(args.add_include)
                                \o SubSeq(s, i + 1, Len(s))

C10_Witness ==
    /\ pc = "create"
    /\ OnlyOption(1)
    /\ args.add_include = <<Baz, Foo>>
    /\ CommandOf(InputRecords[1]) = CmdInc
    /\ CommandOf(compile_commands[1])
          = <<"c","l","a","n","g"," ","-","c"," ">> \o <<" ", " ">>
              \o <<"-","I","f","o","o"," ">> \o <<"-","I","b","a","z"," ">>
              \o <<"-","I","f","o","o","/","b","a","r"," ","f","i","l","e",".","c">>

====
